---- MODULE Spec2Model ----
(***************************************************************************)
(* Flag resolution engine of examples/agent-http-server.py:                *)
(* AppConfigAgentHandler.handle_evaluate, get_config_path, evaluate_flag   *)
(* and evaluate_condition.                                                 *)
(*                                                                         *)
(* JSON values (and the Python objects json.load builds from them) are     *)
(* tagged records: null, bool, num, str (a sequence of one-character       *)
(* strings, so that substring search and split are computed), arr, obj     *)
(* (a function from keys to values).  Object keys, flag keys and path      *)
(* components are only ever looked up or joined, never inspected, and are   *)
(* kept as atomic strings.                                                 *)
(***************************************************************************)
EXTENDS Integers, Sequences, FiniteSets, TLC

\* Longest rule list of a flag definition in the explored documents.
MaxRules == 2

----------------------------------------------------------------------------
\* JSON values

Null == [t |-> "null"]
Bool(b) == [t |-> "bool", b |-> b]
Num(n) == [t |-> "num", n |-> n]
Str(s) == [t |-> "str", s |-> s]
Arr(a) == [t |-> "arr", a |-> a]
Obj(m) == [t |-> "obj", m |-> m]
\* A dict key met while iterating a dict: a Python str whose text is atomic.
Key(k) == [t |-> "key", k |-> k]
\* A request field that is not in the request body.
Absent == [t |-> "absent"]

EmptyMap == [k \in {} |-> Null]
EmptyDict == Obj(EmptyMap)

DQ == "\""
SQ == "'"

\* Python truth value of an object (the `not x` tests).
Truthy(v) ==
    CASE v.t = "null" -> FALSE
      [] v.t = "bool" -> v.b
      [] v.t = "num" -> v.n # 0
      [] v.t = "str" -> Len(v.s) > 0
      [] v.t = "key" -> v.k # ""
      [] v.t = "arr" -> Len(v.a) > 0
      [] v.t = "obj" -> DOMAIN v.m # {}

\* Only a dict has the attribute `get`; on anything else `x.get` raises
\* AttributeError.
IsDict(v) == v.t = "obj"

\* dict.get(key, default)
DictGet(d, k, default) == IF k \in DOMAIN d.m THEN d.m[k] ELSE default

----------------------------------------------------------------------------
\* Strings as character sequences

\* Python `needle in hay` for two strings.
Contains(needle, hay) ==
    \E k \in 0..(Len(hay) - Len(needle)) :
        SubSeq(hay, k + 1, k + Len(needle)) = needle

RECURSIVE Split(_, _)
\* Python s.split(sep) for a one-character separator: the segments between
\* the occurrences of sep, always at least one segment.
Split(s, sep) ==
    IF \E k \in 1..Len(s) : s[k] = sep
    THEN LET k == CHOOSE j \in 1..Len(s) :
                      s[j] = sep /\ \A h \in 1..(j - 1) : s[h] # sep
         IN <<SubSeq(s, 1, k - 1)>> \o Split(SubSeq(s, k + 1, Len(s)), sep)
    ELSE <<s>>

----------------------------------------------------------------------------
\* AppConfigAgentHandler.evaluate_condition

\* The outcome of a call: exc is the class of the exception it raised
\* ("none" when it returned), v the value it returned, context the caller's
\* context object as the call left it.
Returned(v, context) == [exc |-> "none", v |-> v, context |-> context]
Raised(e, context) == [exc |-> e, v |-> Null, context |-> context]

\* The text 'user.role ==' searched for by evaluate_condition.
UserRoleEq == <<"u", "s", "e", "r", ".", "r", "o", "l", "e", " ", "=", "=">>
UserRoleEqKey == "user.role =="

\* `'user.role ==' in condition`: substring search in a str, membership in
\* a list, key membership in a dict, TypeError on a number or a bool.
HasUserRoleEq(condition) ==
    CASE condition.t = "str" ->
            [exc |-> "none", v |-> Contains(UserRoleEq, condition.s)]
      [] condition.t = "arr" ->
            [exc |-> "none",
             v |-> \E k \in 1..Len(condition.a) :
                       condition.a[k] = Str(UserRoleEq)]
      [] condition.t = "obj" ->
            [exc |-> "none", v |-> UserRoleEqKey \in DOMAIN condition.m]
      [] OTHER -> [exc |-> "TypeError", v |-> FALSE]

\* A slip in the literal extraction: the last segment instead of the second.
ExpectedRoleLastSegment(condition) ==
    IF condition.t # "str" THEN [exc |-> "AttributeError", v |-> <<>>]
    ELSE LET sep == IF Contains(<<DQ>>, condition.s) THEN DQ ELSE SQ
             parts == Split(condition.s, sep)
         IN [exc |-> "none", v |-> parts[Len(parts)]]

\* condition.split('"')[1] if '"' in condition else condition.split("'")[1]
ExpectedRole(condition) ==
    IF condition.t # "str" THEN [exc |-> "AttributeError", v |-> <<>>]
    ELSE LET sep == IF Contains(<<DQ>>, condition.s) THEN DQ ELSE SQ
             parts == Split(condition.s, sep)
         IN IF Len(parts) < 2 THEN [exc |-> "IndexError", v |-> <<>>]
            ELSE [exc |-> "none", v |-> parts[2]]

\* Subscripting instead of get: context['user']['role'].
UserRoleSubscript(context) ==
    IF ~IsDict(context) THEN Raised("TypeError", context)
    ELSE IF "user" \notin DOMAIN context.m THEN Raised("KeyError", context)
    ELSE IF ~IsDict(context.m["user"]) THEN Raised("TypeError", context)
    ELSE IF "role" \notin DOMAIN context.m["user"].m
         THEN Raised("KeyError", context)
    ELSE Returned(context.m["user"].m["role"], context)

\* setdefault instead of get: context.setdefault('user', {}).get('role')
\* stores the empty dict in the caller's context.
UserRoleSetDefault(context) ==
    IF ~IsDict(context) THEN Raised("AttributeError", context)
    ELSE LET after == IF "user" \in DOMAIN context.m THEN context
                      ELSE Obj(context.m @@ ("user" :> EmptyDict))
             user == after.m["user"]
         IN IF ~IsDict(user) THEN Raised("AttributeError", after)
            ELSE Returned(DictGet(user, "role", Null), after)

\* context.get('user', {}).get('role'): dict.get reads and never stores.
UserRole(context) ==
    IF ~IsDict(context) THEN Raised("AttributeError", context)
    ELSE LET user == DictGet(context, "user", EmptyDict)
         IN IF ~IsDict(user) THEN Raised("AttributeError", context)
            ELSE Returned(DictGet(user, "role", Null), context)

\* Python `user_role == expected_role` with expected_role a str: equal only
\* to a str of the same characters.
RoleEquals(user_role, expected_role) ==
    user_role.t = "str" /\ user_role.s = expected_role

\* The matcher with the absent case inverted.
evaluate_condition_absent_never(condition, context) ==
    IF ~Truthy(condition) THEN Returned(FALSE, context)
    ELSE LET has == HasUserRoleEq(condition)
         IN IF has.exc # "none" THEN Raised(has.exc, context)
            ELSE IF ~has.v THEN Returned(FALSE, context)
            ELSE LET expected == ExpectedRole(condition)
                     role == UserRole(context)
                 IN IF expected.exc # "none"
                    THEN Raised(expected.exc, context)
                    ELSE IF role.exc # "none"
                    THEN Raised(role.exc, role.context)
                    ELSE Returned(RoleEquals(role.v, expected.v),
                                  role.context)

evaluate_condition(condition, context) ==
    IF ~Truthy(condition) THEN Returned(TRUE, context)
    ELSE LET has == HasUserRoleEq(condition)
         IN IF has.exc # "none" THEN Raised(has.exc, context)
            ELSE IF ~has.v THEN Returned(FALSE, context)
            ELSE LET expected == ExpectedRole(condition)
                     role == UserRole(context)
                 IN IF expected.exc # "none"
                    THEN Raised(expected.exc, context)
                    ELSE IF role.exc # "none"
                    THEN Raised(role.exc, role.context)
                    ELSE Returned(RoleEquals(role.v, expected.v),
                                  role.context)

----------------------------------------------------------------------------
\* Inputs: configuration files, requests

\* AGENT_PATH, read from the environment by get_config_path.
AGENT_PATH == "/opt/appconfig-agent"

\* os.path.join(agent_path, 'configs', application, environment, profile,
\* 'config.json'), kept as the tuple of its components.
get_config_path(application, environment, profile) ==
    <<AGENT_PATH, "configs", application, environment, profile, "config.json">>

admin == <<"a", "d", "m", "i", "n">>
Admin == <<"A", "d", "m", "i", "n">>
guest == <<"g", "u", "e", "s", "t">>
pro == <<"p", "r", "o">>
bob == <<"b", "o", "b">>
UserRolePath == <<"u", "s", "e", "r", ".", "r", "o", "l", "e">>
UserPlanPath == <<"u", "s", "e", "r", ".", "p", "l", "a", "n">>
TeamUserRolePath == <<"t", "e", "a", "m", ".">> \o UserRolePath

\* The text  <path> == <q><literal><q>
Equality(path, q, literal) ==
    path \o <<" ", "=", "=", " ">> \o <<q>> \o literal \o <<q>>

CondRoleAdmin == Str(Equality(UserRolePath, DQ, admin))
CondRoleAdminSQ == Str(Equality(UserRolePath, SQ, Admin))
CondRoleUnquoted == Str(UserRolePath \o <<" ", "=", "=", " ">> \o admin)
CondPlanPro == Str(Equality(UserPlanPath, DQ, pro))
CondTeamRoleGuest == Str(Equality(TeamUserRolePath, DQ, guest))
CondCompound ==
    Str(Equality(UserRolePath, DQ, admin) \o <<" ", "&", "&", " ">>
        \o Equality(UserPlanPath, DQ, pro))

\* The `condition` entries of the explored rules; Absent: no such key.
Conditions ==
    {Absent, CondRoleAdmin, CondRoleAdminSQ, CondRoleUnquoted, CondPlanPro,
     CondTeamRoleGuest, CondCompound, Str(<<>>), Num(5)}

V1 == Bool(TRUE)
V2 == Str(<<"B">>)

Rule(condition, value) ==
    IF condition = Absent THEN Obj("value" :> value)
    ELSE Obj(("condition" :> condition) @@ ("value" :> value))

\* Rules as they can stand in a document: mappings with or without a
\* condition, the empty mapping, and an entry that is not a mapping.
Rules ==
    {Rule(c, v) : c \in Conditions, v \in {V1, V2}} \cup {EmptyDict, Num(7)}

RuleLists == UNION {[1..n -> Rules] : n \in 0..MaxRules}

FlagDefault == Bool(FALSE)

FlagDefinitions ==
    {Obj("rules" :> Arr(rl)) : rl \in RuleLists}
    \cup {Obj(("default" :> FlagDefault) @@ ("rules" :> Arr(rl))) :
            rl \in RuleLists}
    \cup {EmptyDict, Obj("default" :> FlagDefault), Obj("default" :> Null),
          Obj("rules" :> Null), Null, Bool(TRUE)}

Documents ==
    {Obj("features" :> Obj("beta" :> f)) : f \in FlagDefinitions}
    \cup {EmptyDict, Obj("features" :> EmptyDict), Obj("features" :> Null),
          Arr(<<>>)}

\* A file: absent, present with text that is not JSON, or present with the
\* text of a JSON value.
MissingFile == [exists |-> FALSE, valid |-> FALSE, json |-> Null]
MalformedFile == [exists |-> TRUE, valid |-> FALSE, json |-> Null]
JsonFile(doc) == [exists |-> TRUE, valid |-> TRUE, json |-> doc]

ConfigFiles == {MalformedFile} \cup {JsonFile(d) : d \in Documents}

ProdPath == get_config_path("shop", "prod", "flags")
DevPath == get_config_path("shop", "dev", "flags")

Contexts ==
    {Absent, EmptyDict, Obj("user" :> EmptyDict),
     Obj("user" :> Obj("role" :> Str(admin))),
     Obj("user" :> Obj("role" :> Str(Admin))),
     Obj("user" :> Obj(("role" :> Str(guest)) @@ ("plan" :> Str(pro)))),
     Obj("user" :> Str(bob)),
     Arr(<<>>)}

CallerDefaults == {Absent, Str(<<"c", "d">>)}

ObjectRequest(k, a, e, p, c, d) ==
    [body |-> "object", flagKey |-> k, application |-> a, environment |-> e,
     configurationProfile |-> p, context |-> c, defaultValue |-> d]

\* Request bodies: invalid JSON, JSON that is not an object, and objects
\* with every field set or one of the required fields missing ("").
Requests ==
    {ObjectRequest(k, "shop", "prod", "flags", c, d) :
        k \in {"beta", "gamma"}, c \in Contexts, d \in CallerDefaults}
    \cup {ObjectRequest("beta", "shop", "dev", "flags", EmptyDict, d) :
            d \in CallerDefaults}
    \cup {ObjectRequest("", "shop", "prod", "flags", EmptyDict, Absent),
          ObjectRequest("beta", "shop", "prod", "", EmptyDict, Absent),
          [ObjectRequest("", "", "", "", Absent, Absent)
              EXCEPT !.body = "invalid"],
          [ObjectRequest("", "", "", "", Absent, Absent)
              EXCEPT !.body = "nonobject"]}

----------------------------------------------------------------------------
\* State

VARIABLES
    files,          \* the configuration store: path -> file
    request,        \* the request being handled
    pc,             \* position of the handler
    context,        \* handle_evaluate's local `context`
    default_value,  \* handle_evaluate's local `default_value`
    config_data,    \* evaluate_flag's local `config_data`
    flag_default,   \* evaluate_flag's local `flag_default`
    rules,          \* the items the `for rule in rules` loop runs over
    i,              \* number of items the loop has taken; rules[i] is `rule`
    matched,        \* what the last evaluate_condition call did
    exc,            \* class of the exception raised in this request, if any
    result,         \* the dict evaluate_flag returned
    response,       \* the HTTP response sent
    remembered      \* an earlier request of this server and its response

vars ==
    <<files, request, pc, context, default_value, config_data, flag_default,
      rules, i, matched, exc, result, response, remembered>>

NoResult == [value |-> Null, reason |-> "none"]
NoResponse == [status |-> 0, body |-> Null]
NoCall == [request |-> Null, response |-> NoResponse]

\* send_error_response(status_code, message)
send_error_response(status_code, message) ==
    [status |-> status_code, body |-> [error |-> message]]

\* The 200 response carrying json.dumps(result).
ResultResponse(r) == [status |-> 200, body |-> r]

\* The caller's default dropped from the FLAG_NOT_FOUND result.
FlagNotFoundResultNoValue(dv) == [value |-> Null, reason |-> "FLAG_NOT_FOUND"]

FlagNotFoundResult(dv) == [value |-> dv, reason |-> "FLAG_NOT_FOUND"]
TargetingMatchResult(rule_value) ==
    [value |-> rule_value, reason |-> "TARGETING_MATCH"]
DefaultResult(fd) == [value |-> fd, reason |-> "DEFAULT"]
ErrorResult(dv) == [value |-> dv, reason |-> "ERROR"]

\* A handler that names one exception class instead of Exception.
ExceptAttributeErrorOnly(e) == e = "AttributeError"

\* `except Exception` of evaluate_flag: every exception class raised in the
\* try body derives from Exception.
ExceptException(e) ==
    e \in {"JSONDecodeError", "AttributeError", "TypeError", "IndexError",
           "KeyError"}

\* json.load(f)
json_load(file) ==
    IF file.valid THEN [exc |-> "none", v |-> file.json]
    ELSE [exc |-> "JSONDecodeError", v |-> Null]

\* The rule list walked from its end.
IterItemsReversed(v) ==
    CASE v.t = "arr" ->
            [exc |-> "none",
             items |-> [k \in 1..Len(v.a) |-> v.a[Len(v.a) + 1 - k]]]
      [] v.t = "str" ->
            [exc |-> "none",
             items |-> [k \in 1..Len(v.s) |-> Str(<<v.s[Len(v.s) + 1 - k]>>)]]
      [] v.t = "obj" -> [exc |-> "none", items |-> <<>>]
      [] OTHER -> [exc |-> "TypeError", items |-> <<>>]

RECURSIVE SetToSeq(_)
SetToSeq(S) ==
    IF S = {} THEN <<>>
    ELSE LET x == CHOOSE y \in S : TRUE IN <<x>> \o SetToSeq(S \ {x})

\* iter(rules) of the for statement: the elements of a list in order, the
\* characters of a str, the keys of a dict; TypeError on anything else.
IterItems(v) ==
    CASE v.t = "arr" -> [exc |-> "none", items |-> v.a]
      [] v.t = "str" ->
            [exc |-> "none", items |-> [k \in 1..Len(v.s) |-> Str(<<v.s[k]>>)]]
      [] v.t = "obj" ->
            [exc |-> "none",
             items |-> LET ks == SetToSeq(DOMAIN v.m)
                       IN [k \in 1..Len(ks) |-> Key(ks[k])]]
      [] OTHER -> [exc |-> "TypeError", items |-> <<>>]

----------------------------------------------------------------------------
\* Actions

RequestIsComplete ==
    /\ request.flagKey # ""
    /\ request.application # ""
    /\ request.environment # ""
    /\ request.configurationProfile # ""

ConfigPath ==
    get_config_path(request.application, request.environment,
                    request.configurationProfile)

\* An exception raised inside evaluate_flag's try body: the except clause
\* returns the ERROR result; an exception it does not catch reaches
\* handle_evaluate's own handler, which answers 500.
RaiseInEvaluateFlag(e) ==
    /\ exc' = e
    /\ IF ExceptException(e)
       THEN /\ result' = ErrorResult(default_value)
            /\ pc' = "send"
            /\ UNCHANGED response
       ELSE /\ response' = send_error_response(500, "Internal server error")
            /\ pc' = "done"
            /\ UNCHANGED result

Reply(r) ==
    /\ response' = r
    /\ pc' = "done"
    /\ UNCHANGED <<files, request, context, default_value, config_data,
                   flag_default, rules, i, matched, result, remembered>>

\* json.loads of a body that is not JSON.
InvalidRequestBody ==
    /\ pc = "handle"
    /\ request.body = "invalid"
    /\ exc' = "JSONDecodeError"
    /\ Reply(send_error_response(400, "Invalid JSON in request body"))

\* request_data.get on a body that is JSON but not an object.
RequestNotObject ==
    /\ pc = "handle"
    /\ request.body = "nonobject"
    /\ exc' = "AttributeError"
    /\ Reply(send_error_response(500, "Internal server error"))

\* Extract request parameters.
ReadRequest ==
    /\ pc = "handle"
    /\ request.body = "object"
    /\ context' = IF request.context = Absent THEN EmptyDict
                  ELSE request.context
    /\ default_value' = IF request.defaultValue = Absent THEN Null
                        ELSE request.defaultValue
    /\ pc' = "validate"
    /\ UNCHANGED <<files, request, config_data, flag_default, rules, i,
                   matched, exc, result, response, remembered>>

MissingParameters ==
    /\ pc = "validate"
    /\ ~RequestIsComplete
    /\ UNCHANGED exc
    /\ Reply(send_error_response(400, "Missing required parameters"))

ConfigNotFound ==
    /\ pc = "validate"
    /\ RequestIsComplete
    /\ ~files[ConfigPath].exists
    /\ UNCHANGED exc
    /\ Reply(send_error_response(404, "Configuration not found"))

\* evaluate_flag is called: open the file and json.load it.
LoadConfig ==
    /\ pc = "validate"
    /\ RequestIsComplete
    /\ files[ConfigPath].exists
    /\ LET loaded == json_load(files[ConfigPath])
       IN IF loaded.exc # "none"
          THEN RaiseInEvaluateFlag(loaded.exc) /\ UNCHANGED config_data
          ELSE /\ config_data' = loaded.v
               /\ pc' = "lookup"
               /\ UNCHANGED <<exc, result, response>>
    /\ UNCHANGED <<files, request, context, default_value, flag_default,
                   rules, i, matched, remembered>>

\* Look the flag up, take its default and its rules, enter the loop.
LookupFlag ==
    /\ pc = "lookup"
    /\ IF ~IsDict(config_data)
       THEN RaiseInEvaluateFlag("AttributeError")
            /\ UNCHANGED <<flag_default, rules>>
       ELSE LET features == DictGet(config_data, "features", EmptyDict)
            IN IF ~IsDict(features)
               THEN RaiseInEvaluateFlag("AttributeError")
                    /\ UNCHANGED <<flag_default, rules>>
               ELSE LET flag_config == DictGet(features, request.flagKey, Null)
                    IN IF ~Truthy(flag_config)
                       THEN /\ result' = FlagNotFoundResult(default_value)
                            /\ pc' = "send"
                            /\ UNCHANGED <<exc, response, flag_default, rules>>
                       ELSE IF ~IsDict(flag_config)
                       THEN RaiseInEvaluateFlag("AttributeError")
                            /\ UNCHANGED <<flag_default, rules>>
                       ELSE LET it == IterItems(DictGet(flag_config, "rules",
                                                        Arr(<<>>)))
                            IN /\ flag_default' =
                                     DictGet(flag_config, "default",
                                             default_value)
                               /\ IF it.exc # "none"
                                  THEN RaiseInEvaluateFlag(it.exc)
                                       /\ UNCHANGED rules
                                  ELSE /\ rules' = it.items
                                       /\ pc' = "loop"
                                       /\ UNCHANGED <<exc, result, response>>
    /\ UNCHANGED <<files, request, context, default_value, config_data, i,
                   matched, remembered>>

\* One pass of the loop body over the next rule.
EvaluateRule ==
    /\ pc = "loop"
    /\ i < Len(rules)
    /\ i' = i + 1
    /\ LET rule == rules[i + 1]
       IN IF ~IsDict(rule)
          THEN RaiseInEvaluateFlag("AttributeError")
               /\ UNCHANGED <<matched, context>>
          ELSE LET condition == DictGet(rule, "condition", Null)
                   rule_value == DictGet(rule, "value", Null)
                   m == evaluate_condition(condition, context)
               IN /\ context' = m.context
                  /\ IF m.exc # "none"
                     THEN RaiseInEvaluateFlag(m.exc) /\ matched' = "raised"
                     ELSE IF m.v
                     THEN /\ matched' = "True"
                          /\ result' = TargetingMatchResult(rule_value)
                          /\ pc' = "send"
                          /\ UNCHANGED <<exc, response>>
                     ELSE /\ matched' = "False"
                          /\ UNCHANGED <<pc, exc, result, response>>
    /\ UNCHANGED <<files, request, default_value, config_data, flag_default,
                   rules, remembered>>

\* The loop ran out of rules.
ReturnDefault ==
    /\ pc = "loop"
    /\ i = Len(rules)
    /\ result' = DefaultResult(flag_default)
    /\ pc' = "send"
    /\ UNCHANGED <<files, request, context, default_value, config_data,
                   flag_default, rules, i, matched, exc, response, remembered>>

\* Send response.
SendResult ==
    /\ pc = "send"
    /\ UNCHANGED exc
    /\ Reply(ResultResponse(result))

Fresh(f, r, rem) ==
    /\ files = f
    /\ request = r
    /\ pc = "handle"
    /\ context = Null
    /\ default_value = Null
    /\ config_data = Null
    /\ flag_default = Null
    /\ rules = <<>>
    /\ i = 0
    /\ matched = "none"
    /\ exc = "none"
    /\ result = NoResult
    /\ response = NoResponse
    /\ remembered = rem

Store(f) == (ProdPath :> f) @@ (DevPath :> MissingFile)

\* One request against any configuration file.
Init ==
    \E f \in ConfigFiles, r \in Requests : Fresh(Store(f), r, NoCall)

Next ==
    \/ InvalidRequestBody
    \/ RequestNotObject
    \/ ReadRequest
    \/ MissingParameters
    \/ ConfigNotFound
    \/ LoadConfig
    \/ LookupFlag
    \/ EvaluateRule
    \/ ReturnDefault
    \/ SendResult

Spec == Init /\ [][Next]_vars

----------------------------------------------------------------------------
\* A server handling one request after another (serve_forever)

\* The documented end-to-end scenario and a two-rule variant of it.
ScenarioDocument ==
    Obj("features" :>
        Obj("beta" :> Obj(("default" :> FlagDefault)
                          @@ ("rules" :> Arr(<<Rule(CondRoleAdmin, V1)>>)))))
FallthroughDocument ==
    Obj("features" :>
        Obj("beta" :> Obj("rules" :> Arr(<<Rule(CondRoleAdmin, V1),
                                           Rule(Absent, V2)>>))))

ServerFiles ==
    {MalformedFile, JsonFile(ScenarioDocument), JsonFile(FallthroughDocument)}

\* The handler returned; the server takes the next request with a new
\* handler object.  remembered keeps one earlier request and its response.
NextRequest ==
    /\ pc = "done"
    /\ request' \in Requests
    /\ remembered' \in
          {remembered, [request |-> request, response |-> response]}
    /\ pc' = "handle"
    /\ context' = Null
    /\ default_value' = Null
    /\ config_data' = Null
    /\ flag_default' = Null
    /\ rules' = <<>>
    /\ i' = 0
    /\ matched' = "none"
    /\ exc' = "none"
    /\ result' = NoResult
    /\ response' = NoResponse
    /\ UNCHANGED files

ServerInit ==
    \E f \in ServerFiles, r \in Requests : Fresh(Store(f), r, NoCall)

ServerNext == Next \/ NextRequest

ServerSpec == ServerInit /\ [][ServerNext]_vars

----------------------------------------------------------------------------
\* Terms of the properties

\* evaluate_flag was called for the request.
Evaluated ==
    /\ request.body = "object"
    /\ RequestIsComplete
    /\ files[ConfigPath].exists

CallerDefault ==
    IF request.defaultValue = Absent THEN Null ELSE request.defaultValue

CallContext ==
    IF request.context = Absent THEN EmptyDict ELSE request.context

Document == files[ConfigPath].json

DocumentIsMapping == Evaluated /\ files[ConfigPath].valid /\ IsDict(Document)

FlagPresent ==
    /\ DocumentIsMapping
    /\ "features" \in DOMAIN Document.m
    /\ IsDict(Document.m["features"])
    /\ request.flagKey \in DOMAIN Document.m["features"].m

Flag == Document.m["features"].m[request.flagKey]

\* The flag definition is a mapping whose rules, if any, are a list.
FlagHasRuleList ==
    /\ FlagPresent
    /\ IsDict(Flag)
    /\ ("rules" \in DOMAIN Flag.m => Flag.m["rules"].t = "arr")

DocRules == IF "rules" \in DOMAIN Flag.m THEN Flag.m["rules"].a ELSE <<>>

\* What evaluating rule k of the document does: "True", "False" or "raised".
RuleOutcome(k) ==
    LET rule == DocRules[k]
    IN IF ~IsDict(rule) THEN "raised"
       ELSE LET m == evaluate_condition(DictGet(rule, "condition", Null),
                                        CallContext)
            IN IF m.exc # "none" THEN "raised"
               ELSE IF m.v THEN "True" ELSE "False"

RuleValue(k) == DictGet(DocRules[k], "value", Null)

Least(S) == CHOOSE k \in S : \A j \in S : k <= j

\* The loop has evaluated at least one rule, and rule i is a mapping.
RuleEvaluated == i >= 1 /\ i <= Len(rules) /\ IsDict(rules[i])

\* The value found by walking the keys of a dotted path in a context;
\* NoValue when a key is missing or a step is not a mapping.
NoValue == [t |-> "novalue"]
RECURSIVE Walk(_, _)
Walk(v, keys) ==
    IF keys = <<>> THEN v
    ELSE IF v.t = "obj" /\ Head(keys) \in DOMAIN v.m
         THEN Walk(v.m[Head(keys)], Tail(keys))
         ELSE NoValue

DottedPaths == {UserRolePath, UserPlanPath, TeamUserRolePath}
PathKeys(path) ==
    CASE path = UserRolePath -> <<"user", "role">>
      [] path = UserPlanPath -> <<"user", "plan">>
      [] path = TeamUserRolePath -> <<"team", "user", "role">>
Literals == {admin, Admin, guest, pro}

\* s is exactly one equality predicate  <dotted.path> == "<literal>".
IsEqualityPredicate(s) ==
    \E path \in DottedPaths, q \in {DQ, SQ}, literal \in Literals :
        s = Equality(path, q, literal)

----------------------------------------------------------------------------
\* Properties

\* The 200 response whose body is the evaluation result {value, reason}.
Served(reason, value) ==
    [status |-> 200, body |-> [value |-> value, reason |-> reason]]

Reasons == {"FLAG_NOT_FOUND", "TARGETING_MATCH", "DEFAULT", "ERROR"}

\* C1: whenever evaluate_flag was called, the request ends in a 200 response
\* carrying one of the four reasons, never in the 500 of a propagated
\* exception; and if anything raised during the evaluation, that response is
\* exactly {value: the caller's default, reason: ERROR}.
C1_NeverPropagates ==
    (pc = "done" /\ Evaluated) =>
        /\ response.status = 200
        /\ response.body.reason \in Reasons
        /\ (exc # "none" =>
                response = Served("ERROR", CallerDefault))

\* A rule that is not a mapping was met in the loop and the request ended in
\* the ERROR result with a caller default that is not null.
C1_Witness ==
    /\ pc = "done" /\ Evaluated
    /\ i >= 1 /\ ~IsDict(rules[i])
    /\ exc = "AttributeError"
    /\ CallerDefault # Null
    /\ response = Served("ERROR", CallerDefault)

\* C2 as stated: for a flag present in the document, if at least one rule's
\* condition matches, the response is TARGETING_MATCH with the value of the
\* first rule in document order whose condition matches.
C2_FirstMatchWins_AsStated ==
    (pc = "done" /\ FlagHasRuleList
        /\ \E k \in 1..Len(DocRules) : RuleOutcome(k) = "True") =>
        LET first == Least({k \in 1..Len(DocRules) : RuleOutcome(k) = "True"})
        IN response = Served("TARGETING_MATCH", RuleValue(first))

\* C2 amended: rules are evaluated in document order up to the first rule
\* that either matches or fails.  If that rule matches, the response is
\* TARGETING_MATCH with its value; if it fails, the response is ERROR with
\* the caller's default.  In both cases no later rule is evaluated.
C2_FirstDecisiveRuleWins ==
    (pc = "done" /\ FlagHasRuleList
        /\ \E k \in 1..Len(DocRules) : RuleOutcome(k) # "False") =>
        LET first == Least({k \in 1..Len(DocRules) : RuleOutcome(k) # "False"})
        IN /\ i = first
           /\ RuleOutcome(first) = "True" =>
                response = Served("TARGETING_MATCH", RuleValue(first))
           /\ RuleOutcome(first) = "raised" =>
                response = Served("ERROR", CallerDefault)

\* Two rules match, with different values; the first one's value is served.
C2_Witness ==
    /\ pc = "done" /\ FlagHasRuleList
    /\ Len(DocRules) = 2
    /\ RuleOutcome(1) = "True" /\ RuleOutcome(2) = "True"
    /\ RuleValue(1) # RuleValue(2)
    /\ DictGet(DocRules[1], "condition", Null) = CondRoleAdmin
    /\ i = 1
    /\ response = Served("TARGETING_MATCH", RuleValue(1))

\* C3 as stated: for a flag definition present in features whose rule list
\* is empty or absent, the response is DEFAULT with the flag's own default
\* if it has one, else the caller's default.
C3_EmptyRulesGiveDefault ==
    (pc = "done" /\ FlagHasRuleList /\ DocRules = <<>>) =>
        response = Served("DEFAULT", DictGet(Flag, "default", CallerDefault))

\* C4: for a flag key that is not in the document's features (or a document
\* without features), the response is FLAG_NOT_FOUND with the caller's
\* default, whatever the context.
C4_AbsentFlagNotFound ==
    (pc = "done" /\ DocumentIsMapping
        /\ \/ "features" \notin DOMAIN Document.m
           \/ /\ IsDict(Document.m["features"])
              /\ request.flagKey \notin DOMAIN Document.m["features"].m) =>
        response = Served("FLAG_NOT_FOUND", CallerDefault)

\* The key gamma is asked of a document that defines beta with rules, with a
\* caller default that is not null and a context that would match.
C4_Witness ==
    /\ pc = "done" /\ DocumentIsMapping
    /\ request.flagKey = "gamma"
    /\ "features" \in DOMAIN Document.m
    /\ IsDict(Document.m["features"])
    /\ DOMAIN Document.m["features"].m = {"beta"}
    /\ CallerDefault # Null
    /\ CallContext = Obj("user" :> Obj("role" :> Str(admin)))
    /\ response = Served("FLAG_NOT_FOUND", CallerDefault)

\* C5 as stated: a rule whose condition is a non-empty string that is not
\* exactly one equality predicate evaluates to false, and so never produces
\* TARGETING_MATCH.
C5_UnrecognizedNeverMatches ==
    (RuleEvaluated
        /\ "condition" \in DOMAIN rules[i].m
        /\ rules[i].m["condition"].t = "str"
        /\ rules[i].m["condition"].s # <<>>
        /\ ~IsEqualityPredicate(rules[i].m["condition"].s)) =>
        /\ matched = "False"
        /\ result.reason # "TARGETING_MATCH"

C7_ResolutionFailuresDistinct ==
    (pc = "done" /\ request.body = "object" /\ RequestIsComplete) =>
        /\ ~files[ConfigPath].exists => response.status = 404
        /\ (files[ConfigPath].exists /\ ~files[ConfigPath].valid) =>
                response.status \notin {200, 404}

\* The context is a mapping in which the path user.role stops short.
PathUnresolved ==
    IsDict(CallContext) /\ Walk(CallContext, <<"user", "role">>) = NoValue

\* A key of the path user.role is missing: the context has no user, or its
\* user is a mapping without role.
KeyMissing ==
    /\ IsDict(CallContext)
    /\ \/ "user" \notin DOMAIN CallContext.m
       \/ /\ IsDict(CallContext.m["user"])
          /\ "role" \notin DOMAIN CallContext.m["user"].m

\* C8 as stated: in a context where a segment of user.role cannot be
\* resolved, user.role == "admin" evaluates to false without failing, and
\* the evaluation goes on to the following rules.
C8_UnresolvedPathIsFalse ==
    (RuleEvaluated /\ DictGet(rules[i], "condition", Null) = CondRoleAdmin
        /\ PathUnresolved) =>
        /\ matched = "False"
        /\ exc = "none"
        /\ result.reason \in {"none", "DEFAULT"}

\* C8 amended: in a context where a key of user.role is missing (no user,
\* or a user mapping without role), user.role == "admin" evaluates to false
\* without failing, and the evaluation goes on to the following rules; in a
\* context whose user is present and not a mapping, matching fails and the
\* result is ERROR.
C8_MissingKeyIsFalse ==
    (RuleEvaluated /\ DictGet(rules[i], "condition", Null) = CondRoleAdmin
        /\ IsDict(CallContext)) =>
        /\ KeyMissing =>
              /\ matched = "False"
              /\ exc = "none"
              /\ result.reason \in {"none", "DEFAULT"}
        /\ ("user" \in DOMAIN CallContext.m
                /\ ~IsDict(CallContext.m["user"])) =>
              /\ matched = "raised"
              /\ result = [value |-> CallerDefault, reason |-> "ERROR"]

\* user.role == "admin" did not match the empty context, and the unconditional
\* rule after it was served.
C8_Witness ==
    /\ pc = "done" /\ FlagHasRuleList
    /\ CallContext = EmptyDict
    /\ Len(DocRules) = 2
    /\ DocRules[1] = Rule(CondRoleAdmin, V1)
    /\ matched = "True"
    /\ i = 2
    /\ response = Served("TARGETING_MATCH", RuleValue(2))

\* C9: when the loop reaches a rule without condition, that rule matches
\* whatever the context is, the context is left as it was, and the result is
\* TARGETING_MATCH with the rule's value.
C9_AbsentConditionMatches ==
    (RuleEvaluated /\ "condition" \notin DOMAIN rules[i].m) =>
        /\ matched = "True"
        /\ exc = "none"
        /\ context = CallContext
        /\ result = [value |-> DictGet(rules[i], "value", Null),
                      reason |-> "TARGETING_MATCH"]
        /\ pc = "done" =>
                response = Served("TARGETING_MATCH",
                                  DictGet(rules[i], "value", Null))

\* A rule without condition was served after a rule that did not match, for
\* a context whose user is not a mapping.
C9_Witness ==
    /\ pc = "done" /\ RuleEvaluated
    /\ i = 2
    /\ "condition" \notin DOMAIN rules[i].m
    /\ CallContext = Obj("user" :> Str(bob))
    /\ response = Served("TARGETING_MATCH", V2)

\* C10: no step of a request changes the configuration store, no step
\* between reading the request and the response changes the request or the
\* context object, and a request equal to an earlier one of the same server
\* gets the response the earlier one got.
C10_StatelessIdempotent ==
    [][/\ files' = files
       /\ pc # "done" => request' = request
       /\ pc \notin {"handle", "done"} => context' = context
       /\ (pc' = "done" /\ remembered'.request = request') =>
                response' = remembered'.response]_vars

\* A request was answered a second time, with a matching rule evaluated
\* against a context without user, and got the same response.
C10_Witness ==
    /\ pc = "done"
    /\ remembered.request = request
    /\ remembered.response = response
    /\ response.status = 200
    /\ CallContext = EmptyDict
    /\ i = 2
    /\ response.body.reason = "TARGETING_MATCH"

====
